---- MODULE Spec2Model ----
(***************************************************************************)
(* OCR function nodes built on tesseract.js.                               *)
(*                                                                         *)
(* The model follows a call through performAdvancedOCR (multi-worker,      *)
(* retrying), through performOCR, and through the two host wrappers that   *)
(* are exported as the function node.  Every await of the source is one    *)
(* step; the outcome of an external collaborator (sharp, createWorker,     *)
(* scheduler.addJob, worker.recognize, worker.terminate) is a              *)
(* nondeterministic choice between fulfilment and rejection.  Spec makes   *)
(* one call, SpecConcurrent interleaves two calls of performAdvancedOCR,   *)
(* FairSpec is Spec with every settled await resumed.                      *)
(***************************************************************************)
EXTENDS Integers, Sequences, FiniteSets, TLC

\* ------------------------------------------------------------------ bounds
MaxLangs == 2        \* longest language list a caller passes
MaxRetries == 3      \* largest retries option a caller passes
MaxNegRetries == 1   \* the smallest retries option is -MaxNegRetries

MaxConcLangs == 1    \* longest language list when two calls run together
MaxConcRetries == 2  \* largest retries option when two calls run together

Reqs == {1, 2}                        \* the calls that can be in flight
AllLangs == <<"eng", "fra", "deu">>   \* language identifiers, in list order
Texts == {"HELLO", "WORLD"}           \* texts the engine can recognise

\* ------------------------------------------------------------------ values
\* A thrown value: an Error with a message.  n tells errors of a kind apart
\* (the submission that failed, the language index, the worker index).
Err(kind, n) == [kind |-> kind, n |-> n, message |-> <<kind, n>>]
NullErr == Err("null", 0)                    \* `let error = null`
NoBinaryErr == Err("NoBinary", 0)
PreprocessErr == Err("Preprocessing", 0)
InitErr(i) == Err("Initialization", i)
RecognitionErr(i) == Err("Recognition", i)
CleanupErr(w) == Err("Cleanup", w)

\* Completion of an async function: still running, returned, or thrown.
Running == [type |-> "none", text |-> "", err |-> NullErr]
Return(t) == [type |-> "return", text |-> t, err |-> NullErr]
Throw(e) == [type |-> "throw", text |-> "", err |-> e]

\* One entry of the log: a collaborator call or its settlement.  For
\* "input", n is 1 when the input item carries binary data and 0 when not.
Ev(name, n) == [ev |-> name, n |-> n]
Count(s, name) == Cardinality({i \in DOMAIN s : s[i].ev = name})
CountN(s, name, n) == Cardinality({i \in DOMAIN s : s[i] = Ev(name, n)})
Max(a, b) == IF a > b THEN a ELSE b

VARIABLES
  pc,             \* where each request stands
  kind,           \* which entry point the request came through
  languages,      \* options.languages
  preprocessing,  \* options.preprocessing
  retries,        \* options.retries
  processed,      \* TRUE when processedImage is the preprocessed buffer
  workers,        \* the workers array: <<[lang, st, termCalls]>>
  registered,     \* worker indices added to the scheduler, in order
  attempts,       \* let attempts
  error,          \* let error
  text,           \* let text
  pending,        \* completion of the try block, held while finally runs
  allReject,      \* first rejection seen by Promise.all (NullErr: none)
  outcome,        \* completion of performAdvancedOCR / extractTextFromImage
  hostResult,     \* the record the host wrapper returned
  delivered,      \* the text the engine delivered on the successful job
  log             \* every collaborator call and its settlement, in order

vars == <<pc, kind, languages, preprocessing, retries, processed, workers,
          registered, attempts, error, text, pending, allReject, outcome,
          hostResult, delivered, log>>

NotReturned == [returned |-> FALSE]

\* The locals of every call are fresh; pcs tells where each call stands.
InitWith(pcs) ==
  /\ pc = pcs
  /\ kind = [r \in Reqs |-> "none"]
  /\ languages = [r \in Reqs |-> <<>>]
  /\ preprocessing = [r \in Reqs |-> FALSE]
  /\ retries = [r \in Reqs |-> 0]
  /\ processed = [r \in Reqs |-> FALSE]
  /\ workers = [r \in Reqs |-> <<>>]
  /\ registered = [r \in Reqs |-> <<>>]
  /\ attempts = [r \in Reqs |-> 0]
  /\ error = [r \in Reqs |-> NullErr]
  /\ text = [r \in Reqs |-> ""]
  /\ pending = [r \in Reqs |-> Running]
  /\ allReject = [r \in Reqs |-> NullErr]
  /\ outcome = [r \in Reqs |-> Running]
  /\ hostResult = [r \in Reqs |-> NotReturned]
  /\ delivered = [r \in Reqs |-> ""]
  /\ log = [r \in Reqs |-> <<>>]

\* One call is made; the other never starts.
Init == InitWith([r \in Reqs |-> IF r = 1 THEN "idle" ELSE "off"])

\* Two calls are made and run interleaved at their awaits.
InitConcurrent == InitWith([r \in Reqs |-> "idle"])

\* ------------------------------------------------- performAdvancedOCR
Upd(f, r, v) == [f EXCEPT ![r] = v]
Logged(r, evs) == log' = Upd(log, r, log[r] \o evs)

\* Mutation of LoopCond: an off-by-one bound, `attempts <= retries`.
LoopCondInclusive(a, n) == a <= n

\* `while (attempts < retries)`
LoopCond(a, n) == a < n

\* Mutation of DelayCond: the wait is not guarded at all.
DelayUnguarded(a, n) == TRUE

\* `if (attempts < retries)` guarding the wait before the next attempt
DelayCond(a, n) == a < n

\* `if (error) throw error; ... return text;`
TryCompletion(e, t) == IF e # NullErr THEN Throw(e) ELSE Return(t)

\* Where control goes when the while condition is evaluated: into the loop
\* body (the addJob await) or past the loop, into the finally block.
LoopPc(a, n) == IF LoopCond(a, n) THEN "loop" ELSE "finally"

\* Mutation of InitPc: the initialisation loop stops one language short.
InitPcOneShort(nw, langs, n) == IF nw + 1 < Len(langs) THEN "init" ELSE LoopPc(0, n)

\* `for (const lang of languages)`: the next createWorker await, or the try.
InitPc(nw, langs, n) == IF nw < Len(langs) THEN "init" ELSE LoopPc(0, n)

\* Entry of performAdvancedOCR: the options are destructured, the locals are
\* fresh, and control runs to the first await.
Enter(r, knd, langs, pre, n) ==
  /\ kind' = Upd(kind, r, knd)
  /\ languages' = Upd(languages, r, langs)
  /\ preprocessing' = Upd(preprocessing, r, pre)
  /\ retries' = Upd(retries, r, n)
  /\ pc' = Upd(pc, r, IF pre THEN "pre" ELSE InitPc(0, langs, n))

\* A direct call of performAdvancedOCR(imageBuffer, options).
CallAdvanced(r) ==
  /\ pc[r] = "idle"
  /\ \E nl \in 0..MaxLangs, pre \in BOOLEAN, n \in (0 - MaxNegRetries)..MaxRetries :
       Enter(r, "adv", SubSeq(AllLangs, 1, nl), pre, n)
  /\ UNCHANGED <<processed, workers, registered, attempts, error, text, pending,
                 allReject, outcome, hostResult, delivered, log>>

\* A direct call of performAdvancedOCR while another call may be in flight.
CallConcurrent(r) ==
  /\ pc[r] = "idle"
  /\ \E nl \in 1..MaxConcLangs, n \in 1..MaxConcRetries :
       Enter(r, "adv", SubSeq(AllLangs, 1, nl), FALSE, n)
  /\ UNCHANGED <<processed, workers, registered, attempts, error, text, pending,
                 allReject, outcome, hostResult, delivered, log>>

\* Mutation of Preprocess: a failed preprocessing is swallowed and the raw
\* buffer is used instead.
PreprocessFallback(r) ==
  /\ pc[r] = "pre"
  /\ \/ /\ processed' = Upd(processed, r, TRUE)
        /\ Logged(r, <<Ev("preprocess", 0), Ev("preOk", 0)>>)
     \/ /\ Logged(r, <<Ev("preprocess", 0), Ev("preFail", 0)>>)
        /\ UNCHANGED processed
  /\ pc' = Upd(pc, r, InitPc(0, languages[r], retries[r]))
  /\ UNCHANGED <<kind, languages, preprocessing, retries, workers, registered,
                 attempts, error, text, pending, allReject, outcome, hostResult,
                 delivered>>

\* `processedImage = await preprocessImage(...)`, outside any try.
Preprocess(r) ==
  /\ pc[r] = "pre"
  /\ \/ /\ processed' = Upd(processed, r, TRUE)
        /\ pc' = Upd(pc, r, InitPc(0, languages[r], retries[r]))
        /\ Logged(r, <<Ev("preprocess", 0), Ev("preOk", 0)>>)
        /\ UNCHANGED outcome
     \/ /\ outcome' = Upd(outcome, r, Throw(PreprocessErr))
        /\ pc' = Upd(pc, r, "done")
        /\ Logged(r, <<Ev("preprocess", 0), Ev("preFail", 0), Ev("exit", 0)>>)
        /\ UNCHANGED processed
  /\ UNCHANGED <<kind, languages, preprocessing, retries, workers, registered,
                 attempts, error, text, pending, allReject, hostResult, delivered>>

NewWorker(lang) == [lang |-> lang, st |-> "live", termCalls |-> 0]

\* Mutation of CreateWorker: scheduler.addWorker is left out.
CreateWorkerUnregistered(r) ==
  /\ pc[r] = "init"
  /\ LET i == Len(workers[r]) + 1 IN
     \/ /\ workers' = Upd(workers, r, Append(workers[r], NewWorker(languages[r][i])))
        /\ pc' = Upd(pc, r, InitPc(i, languages[r], retries[r]))
        /\ Logged(r, <<Ev("createWorker", i)>>)
        /\ UNCHANGED <<outcome, registered>>
     \/ /\ outcome' = Upd(outcome, r, Throw(InitErr(i)))
        /\ pc' = Upd(pc, r, "done")
        /\ Logged(r, <<Ev("createWorker", i), Ev("createFail", i), Ev("exit", 0)>>)
        /\ UNCHANGED <<workers, registered>>
  /\ UNCHANGED <<kind, languages, preprocessing, retries, processed, attempts,
                 error, text, pending, allReject, hostResult, delivered>>

\* One turn of the initialisation loop: `await createWorker(lang, ...)`, then
\* workers.push and scheduler.addWorker.  The loop is outside the try block:
\* a rejection leaves performAdvancedOCR at once.
CreateWorker(r) ==
  /\ pc[r] = "init"
  /\ LET i == Len(workers[r]) + 1 IN
     \/ /\ workers' = Upd(workers, r, Append(workers[r], NewWorker(languages[r][i])))
        /\ registered' = Upd(registered, r, Append(registered[r], i))
        /\ pc' = Upd(pc, r, InitPc(i, languages[r], retries[r]))
        /\ Logged(r, <<Ev("createWorker", i), Ev("addWorker", i)>>)
        /\ UNCHANGED outcome
     \/ /\ outcome' = Upd(outcome, r, Throw(InitErr(i)))
        /\ pc' = Upd(pc, r, "done")
        /\ Logged(r, <<Ev("createWorker", i), Ev("createFail", i), Ev("exit", 0)>>)
        /\ UNCHANGED <<workers, registered>>
  /\ UNCHANGED <<kind, languages, preprocessing, retries, processed, attempts,
                 error, text, pending, allReject, hostResult, delivered>>

\* One turn of the retry loop: `await scheduler.addJob('recognize', ...)` and
\* what follows its settlement, up to the next await.
AddJob(r) ==
  /\ pc[r] = "loop"
  /\ LET k == Count(log[r], "addJob") + 1 IN
     \/ \E t \in Texts :
          /\ text' = Upd(text, r, t)
          /\ error' = Upd(error, r, NullErr)
          /\ delivered' = Upd(delivered, r, t)
          /\ pc' = Upd(pc, r, "finally")
          /\ Logged(r, <<Ev("addJob", k), Ev("jobOk", k)>>)
          /\ UNCHANGED attempts
     \/ /\ error' = Upd(error, r, RecognitionErr(k))
        /\ attempts' = Upd(attempts, r, attempts[r] + 1)
        /\ pc' = Upd(pc, r, IF DelayCond(attempts[r] + 1, retries[r])
                              THEN "delay"
                              ELSE LoopPc(attempts[r] + 1, retries[r]))
        /\ Logged(r, <<Ev("addJob", k), Ev("jobFail", k)>>)
        /\ UNCHANGED <<text, delivered>>
  /\ UNCHANGED <<kind, languages, preprocessing, retries, processed, workers,
                 registered, pending, allReject, outcome, hostResult>>

\* Mutation of Delay: the executor never calls resolve, so the wait never ends.
DelayNeverResolved(r) ==
  /\ pc[r] = "delay"
  /\ FALSE
  /\ UNCHANGED vars

\* `await new Promise((resolve) => setTimeout(resolve, 1000))`, then back to
\* the while condition.
Delay(r) ==
  /\ pc[r] = "delay"
  /\ pc' = Upd(pc, r, LoopPc(attempts[r], retries[r]))
  /\ Logged(r, <<Ev("delay", attempts[r])>>)
  /\ UNCHANGED <<kind, languages, preprocessing, retries, processed, workers,
                 registered, attempts, error, text, pending, allReject, outcome,
                 hostResult, delivered>>

\* workers.map((worker) => worker.terminate()): every worker of the array has
\* terminate called on it, in array order, before Promise.all is awaited.
Terminating(ws) ==
  [i \in DOMAIN ws |-> [ws[i] EXCEPT !.st = "terminating", !.termCalls = @ + 1]]

TerminateEvents(ws) == [i \in DOMAIN ws |-> Ev("terminate", i)]

\* Mutation of TerminateAll: the cleanup sits at the end of the try block
\* instead of in a finally, so a thrown error skips it.
TerminateAllOnSuccessOnly(r) ==
  /\ pc[r] = "finally"
  /\ pending' = Upd(pending, r, TryCompletion(error[r], text[r]))
  /\ allReject' = Upd(allReject, r, NullErr)
  /\ IF error[r] # NullErr
       THEN /\ outcome' = Upd(outcome, r, Throw(error[r]))
            /\ pc' = Upd(pc, r, "done")
            /\ Logged(r, <<Ev("finally", 0), Ev("exit", 0)>>)
            /\ UNCHANGED workers
       ELSE /\ workers' = Upd(workers, r, Terminating(workers[r]))
            /\ pc' = Upd(pc, r, "awaitAll")
            /\ Logged(r, <<Ev("finally", 0)>> \o TerminateEvents(workers[r]))
            /\ UNCHANGED outcome
  /\ UNCHANGED <<kind, languages, preprocessing, retries, processed, registered,
                 attempts, error, text, hostResult, delivered>>

\* Mutation of TerminateAll: `workers` is one array of the module, shared by
\* every call, instead of a local of the call.
TerminateAllShared(r) ==
  /\ pc[r] = "finally"
  /\ pending' = Upd(pending, r, TryCompletion(error[r], text[r]))
  /\ workers' = [q \in Reqs |-> Terminating(workers[q])]
  /\ allReject' = Upd(allReject, r, NullErr)
  /\ pc' = Upd(pc, r, "awaitAll")
  /\ Logged(r, <<Ev("finally", 0)>> \o TerminateEvents(workers[r]))
  /\ UNCHANGED <<kind, languages, preprocessing, retries, processed, registered,
                 attempts, error, text, outcome, hostResult, delivered>>

\* The end of the try block and the start of finally: the completion of the
\* try is held, terminate is called on the workers, Promise.all is awaited.
TerminateAll(r) ==
  /\ pc[r] = "finally"
  /\ pending' = Upd(pending, r, TryCompletion(error[r], text[r]))
  /\ workers' = Upd(workers, r, Terminating(workers[r]))
  /\ allReject' = Upd(allReject, r, NullErr)
  /\ pc' = Upd(pc, r, "awaitAll")
  /\ Logged(r, <<Ev("finally", 0)>> \o TerminateEvents(workers[r]))
  /\ UNCHANGED <<kind, languages, preprocessing, retries, processed, registered,
                 attempts, error, text, outcome, hostResult, delivered>>

\* One worker.terminate() promise settles.  Promise.all keeps the first
\* rejection; the promises of the other workers settle whenever they do,
\* also after performAdvancedOCR has been left.
TerminateSettle(r, w) ==
  /\ kind[r] \in {"adv", "advHost"}
  /\ w \in DOMAIN workers[r]
  /\ workers[r][w].st = "terminating"
  /\ \/ /\ workers' = Upd(workers, r, [workers[r] EXCEPT ![w].st = "terminated"])
        /\ Logged(r, <<Ev("termOk", w)>>)
        /\ UNCHANGED allReject
     \/ /\ workers' = Upd(workers, r, [workers[r] EXCEPT ![w].st = "termFailed"])
        /\ allReject' = Upd(allReject, r, IF allReject[r] = NullErr
                                            THEN CleanupErr(w)
                                            ELSE allReject[r])
        /\ Logged(r, <<Ev("termFail", w)>>)
  /\ UNCHANGED <<pc, kind, languages, preprocessing, retries, processed,
                 registered, attempts, error, text, pending, outcome, hostResult,
                 delivered>>

\* `await Promise.all(...)` settles and the finally block ends: fulfilled
\* when every terminate fulfilled, and then the completion of the try stands;
\* rejected as soon as one terminate rejected, and then that rejection
\* replaces the completion of the try.
FinallyExit(r) ==
  /\ pc[r] = "awaitAll"
  /\ \/ /\ \A w \in DOMAIN workers[r] : workers[r][w].st = "terminated"
        /\ outcome' = Upd(outcome, r, pending[r])
     \/ /\ allReject[r] # NullErr
        /\ outcome' = Upd(outcome, r, Throw(allReject[r]))
  /\ pc' = Upd(pc, r, "done")
  /\ Logged(r, <<Ev("exit", 0)>>)
  /\ UNCHANGED <<kind, languages, preprocessing, retries, processed, workers,
                 registered, attempts, error, text, pending, allReject,
                 hostResult, delivered>>

\* ------------------------------------------- host wrapper, advanced node
HostLanguages == <<"eng">>   \* `const languages = ['eng']`
HostRetries == 2             \* `retries: 2`

\* `return { json: { success: true, text, statistics, languages, mimeType } }`
\* The statistics and the MIME type are derived values that nothing here reads.
AdvancedSuccess(t, langs) ==
  [returned |-> TRUE,
   json |-> [success |-> TRUE, text |-> t, statistics |-> "statistics",
             languages |-> langs, mimeType |-> "mimeType"]]

\* Mutation of AdvancedFailure: the failure record also carries a text field.
AdvancedFailureWithText(e) ==
  [returned |-> TRUE,
   json |-> [success |-> FALSE, error |-> e.message, text |-> "",
             stack |-> "stack", timestamp |-> "timestamp"]]

\* `return { json: { success: false, error: error.message, stack, timestamp } }`
AdvancedFailure(e) ==
  [returned |-> TRUE,
   json |-> [success |-> FALSE, error |-> e.message, stack |-> "stack",
             timestamp |-> "timestamp"]]

\* Mutation of HostAdvanced: the `if (!binaryData)` check is missing.
HostAdvancedUnchecked(r) ==
  /\ pc[r] = "idle"
  /\ Enter(r, "advHost", HostLanguages, TRUE, HostRetries)
  /\ \E b \in 0..1 : Logged(r, <<Ev("input", b)>>)
  /\ UNCHANGED <<processed, workers, registered, attempts, error, text, pending,
                 allReject, outcome, hostResult, delivered>>

\* The exported function is called: without binary data it throws inside its
\* own try and the catch returns the failure record; with binary data it
\* calls performAdvancedOCR with its fixed options.
HostAdvanced(r) ==
  /\ pc[r] = "idle"
  /\ \/ /\ kind' = Upd(kind, r, "advHost")
        /\ hostResult' = Upd(hostResult, r, AdvancedFailure(NoBinaryErr))
        /\ pc' = Upd(pc, r, "hostDone")
        /\ Logged(r, <<Ev("input", 0)>>)
        /\ UNCHANGED <<languages, preprocessing, retries>>
     \/ /\ Enter(r, "advHost", HostLanguages, TRUE, HostRetries)
        /\ Logged(r, <<Ev("input", 1)>>)
        /\ UNCHANGED hostResult
  /\ UNCHANGED <<processed, workers, registered, attempts, error, text, pending,
                 allReject, outcome, delivered>>

\* `await performAdvancedOCR(...)` settles: the text goes into the success
\* record, a rejection goes through the catch into the failure record.
HostAdvancedReturn(r) ==
  /\ pc[r] = "done"
  /\ kind[r] = "advHost"
  /\ hostResult' = Upd(hostResult, r,
                       IF outcome[r].type = "return"
                         THEN AdvancedSuccess(outcome[r].text, languages[r])
                         ELSE AdvancedFailure(outcome[r].err))
  /\ pc' = Upd(pc, r, "hostDone")
  /\ UNCHANGED <<kind, languages, preprocessing, retries, processed, workers,
                 registered, attempts, error, text, pending, allReject, outcome,
                 delivered, log>>

\* --------------------------------- single-worker node: extractTextFromImage
SimpleLanguage == <<"eng">>   \* `const language = 'eng'`

\* `return { json: { success: true, text: extractedText } }`
SimpleSuccess(t) == [returned |-> TRUE, json |-> [success |-> TRUE, text |-> t]]

\* `return { json: { success: false, error: error.message } }`
SimpleFailure(e) ==
  [returned |-> TRUE, json |-> [success |-> FALSE, error |-> e.message]]

\* The exported function of the code block is called.
HostSimple(r) ==
  /\ pc[r] = "idle"
  /\ kind' = Upd(kind, r, "simpleHost")
  /\ \/ /\ hostResult' = Upd(hostResult, r, SimpleFailure(NoBinaryErr))
        /\ pc' = Upd(pc, r, "hostDone")
        /\ Logged(r, <<Ev("input", 0)>>)
        /\ UNCHANGED languages
     \/ /\ languages' = Upd(languages, r, SimpleLanguage)
        /\ pc' = Upd(pc, r, "sCreate")
        /\ Logged(r, <<Ev("input", 1)>>)
        /\ UNCHANGED hostResult
  /\ UNCHANGED <<preprocessing, retries, processed, workers, registered, attempts,
                 error, text, pending, allReject, outcome, delivered>>

\* `const worker = await createWorker(language)`, before the try.
SimpleCreateWorker(r) ==
  /\ pc[r] = "sCreate"
  /\ \/ /\ workers' = Upd(workers, r, <<NewWorker(languages[r][1])>>)
        /\ pc' = Upd(pc, r, "sRecognize")
        /\ Logged(r, <<Ev("createWorker", 1)>>)
        /\ UNCHANGED outcome
     \/ /\ outcome' = Upd(outcome, r, Throw(InitErr(1)))
        /\ pc' = Upd(pc, r, "sDone")
        /\ Logged(r, <<Ev("createWorker", 1), Ev("createFail", 1), Ev("exit", 0)>>)
        /\ UNCHANGED workers
  /\ UNCHANGED <<kind, languages, preprocessing, retries, processed, registered,
                 attempts, error, text, pending, allReject, hostResult, delivered>>

\* `await worker.recognize(imageBuffer)` settles; the try completes with the
\* text or the rejection, and finally calls worker.terminate().
SimpleRecognize(r) ==
  /\ pc[r] = "sRecognize"
  /\ \/ \E t \in Texts :
          /\ pending' = Upd(pending, r, Return(t))
          /\ delivered' = Upd(delivered, r, t)
          /\ Logged(r, <<Ev("recognize", 1), Ev("jobOk", 1), Ev("terminate", 1)>>)
     \/ /\ pending' = Upd(pending, r, Throw(RecognitionErr(1)))
        /\ Logged(r, <<Ev("recognize", 1), Ev("jobFail", 1), Ev("terminate", 1)>>)
        /\ UNCHANGED delivered
  /\ workers' = Upd(workers, r, Terminating(workers[r]))
  /\ pc' = Upd(pc, r, "sTerminate")
  /\ UNCHANGED <<kind, languages, preprocessing, retries, processed, registered,
                 attempts, error, text, allReject, outcome, hostResult>>

\* `await worker.terminate()` settles and the finally block ends.
SimpleTerminate(r) ==
  /\ pc[r] = "sTerminate"
  /\ \/ /\ workers' = Upd(workers, r, [workers[r] EXCEPT ![1].st = "terminated"])
        /\ outcome' = Upd(outcome, r, pending[r])
        /\ Logged(r, <<Ev("termOk", 1), Ev("exit", 0)>>)
     \/ /\ workers' = Upd(workers, r, [workers[r] EXCEPT ![1].st = "termFailed"])
        /\ outcome' = Upd(outcome, r, Throw(CleanupErr(1)))
        /\ Logged(r, <<Ev("termFail", 1), Ev("exit", 0)>>)
  /\ pc' = Upd(pc, r, "sDone")
  /\ UNCHANGED <<kind, languages, preprocessing, retries, processed, registered,
                 attempts, error, text, pending, allReject, hostResult, delivered>>

\* `await extractTextFromImage(...)` settles in the exported function.
HostSimpleReturn(r) ==
  /\ pc[r] = "sDone"
  /\ hostResult' = Upd(hostResult, r,
                       IF outcome[r].type = "return"
                         THEN SimpleSuccess(outcome[r].text)
                         ELSE SimpleFailure(outcome[r].err))
  /\ pc' = Upd(pc, r, "hostDone")
  /\ UNCHANGED <<kind, languages, preprocessing, retries, processed, workers,
                 registered, attempts, error, text, pending, allReject, outcome,
                 delivered, log>>

\* ------------------------------------------- single-worker example: performOCR
\* A call of performOCR(image, lang).
CallPerformOCR(r) ==
  /\ pc[r] = "idle"
  /\ kind' = Upd(kind, r, "performOCR")
  /\ \E i \in 1..MaxLangs : languages' = Upd(languages, r, <<AllLangs[i]>>)
  /\ pc' = Upd(pc, r, "oCreate")
  /\ UNCHANGED <<preprocessing, retries, processed, workers, registered, attempts,
                 error, text, pending, allReject, outcome, hostResult, delivered,
                 log>>

\* `const worker = await createWorker(lang)`, before the try.
OcrCreateWorker(r) ==
  /\ pc[r] = "oCreate"
  /\ \/ /\ workers' = Upd(workers, r, <<NewWorker(languages[r][1])>>)
        /\ pc' = Upd(pc, r, "oRecognize")
        /\ Logged(r, <<Ev("createWorker", 1)>>)
        /\ UNCHANGED outcome
     \/ /\ outcome' = Upd(outcome, r, Throw(InitErr(1)))
        /\ pc' = Upd(pc, r, "oDone")
        /\ Logged(r, <<Ev("createWorker", 1), Ev("createFail", 1), Ev("exit", 0)>>)
        /\ UNCHANGED workers
  /\ UNCHANGED <<kind, languages, preprocessing, retries, processed, registered,
                 attempts, error, text, pending, allReject, hostResult, delivered>>

\* Mutation of OcrRecognize: the terminate sits after the recognition inside
\* the try, so the rethrow of the catch skips it.
OcrRecognizeNoFinally(r) ==
  /\ pc[r] = "oRecognize"
  /\ \/ \E t \in Texts :
          /\ pending' = Upd(pending, r, Return(t))
          /\ delivered' = Upd(delivered, r, t)
          /\ Logged(r, <<Ev("recognize", 1), Ev("jobOk", 1), Ev("terminate", 1)>>)
          /\ workers' = Upd(workers, r, Terminating(workers[r]))
          /\ pc' = Upd(pc, r, "oTerminate")
          /\ UNCHANGED outcome
     \/ /\ pending' = Upd(pending, r, Throw(RecognitionErr(1)))
        /\ outcome' = Upd(outcome, r, Throw(RecognitionErr(1)))
        /\ Logged(r, <<Ev("recognize", 1), Ev("jobFail", 1), Ev("exit", 0)>>)
        /\ pc' = Upd(pc, r, "oDone")
        /\ UNCHANGED <<delivered, workers>>
  /\ UNCHANGED <<kind, languages, preprocessing, retries, processed, registered,
                 attempts, error, text, allReject, hostResult>>

\* `await worker.recognize(image)` settles: the try returns the text, or the
\* catch rethrows the error; either way finally calls worker.terminate().
OcrRecognize(r) ==
  /\ pc[r] = "oRecognize"
  /\ \/ \E t \in Texts :
          /\ pending' = Upd(pending, r, Return(t))
          /\ delivered' = Upd(delivered, r, t)
          /\ Logged(r, <<Ev("recognize", 1), Ev("jobOk", 1), Ev("terminate", 1)>>)
     \/ /\ pending' = Upd(pending, r, Throw(RecognitionErr(1)))
        /\ Logged(r, <<Ev("recognize", 1), Ev("jobFail", 1), Ev("terminate", 1)>>)
        /\ UNCHANGED delivered
  /\ workers' = Upd(workers, r, Terminating(workers[r]))
  /\ pc' = Upd(pc, r, "oTerminate")
  /\ UNCHANGED <<kind, languages, preprocessing, retries, processed, registered,
                 attempts, error, text, allReject, outcome, hostResult>>

\* `await worker.terminate()` settles and the finally block ends.
OcrTerminate(r) ==
  /\ pc[r] = "oTerminate"
  /\ \/ /\ workers' = Upd(workers, r, [workers[r] EXCEPT ![1].st = "terminated"])
        /\ outcome' = Upd(outcome, r, pending[r])
        /\ Logged(r, <<Ev("termOk", 1), Ev("exit", 0)>>)
     \/ /\ workers' = Upd(workers, r, [workers[r] EXCEPT ![1].st = "termFailed"])
        /\ outcome' = Upd(outcome, r, Throw(CleanupErr(1)))
        /\ Logged(r, <<Ev("termFail", 1), Ev("exit", 0)>>)
  /\ pc' = Upd(pc, r, "oDone")
  /\ UNCHANGED <<kind, languages, preprocessing, retries, processed, registered,
                 attempts, error, text, pending, allReject, hostResult, delivered>>

\* ------------------------------------------------------------ specification
Next ==
  \E r \in Reqs :
    \/ CallAdvanced(r)
    \/ Preprocess(r)
    \/ CreateWorker(r)
    \/ AddJob(r)
    \/ Delay(r)
    \/ TerminateAll(r)
    \/ \E w \in 1..(MaxLangs + 1) : TerminateSettle(r, w)
    \/ FinallyExit(r)
    \/ HostAdvanced(r)
    \/ HostAdvancedReturn(r)
    \/ HostSimple(r)
    \/ SimpleCreateWorker(r)
    \/ SimpleRecognize(r)
    \/ SimpleTerminate(r)
    \/ HostSimpleReturn(r)
    \/ CallPerformOCR(r)
    \/ OcrCreateWorker(r)
    \/ OcrRecognize(r)
    \/ OcrTerminate(r)

Spec == Init /\ [][Next]_vars

\* Every collaborator call settles in the end, and the event loop then runs
\* the continuation that awaits it: a step that stays possible is taken.
FairSpec == Init /\ [][Next]_vars /\ WF_vars(Next)

\* Two calls of performAdvancedOCR, interleaved at their awaits.
NextConcurrent ==
  \E r \in Reqs :
    \/ CallConcurrent(r)
    \/ CreateWorker(r)
    \/ AddJob(r)
    \/ Delay(r)
    \/ TerminateAll(r)
    \/ \E w \in 1..(MaxConcLangs + 1) : TerminateSettle(r, w)
    \/ FinallyExit(r)

SpecConcurrent == InitConcurrent /\ [][NextConcurrent]_vars

\* ---------------------------------------------------------------- vocabulary
Advanced(r) == kind[r] \in {"adv", "advHost"}
Left(r) == outcome[r].type # "none"          \* the function returned or threw
Submissions(r) == Count(log[r], "addJob")
Delays(r) == Count(log[r], "delay")
Failures(r) == Count(log[r], "jobFail")
Succeeded(r) == Count(log[r], "jobOk") = 1   \* a submission delivered a text
LoopOver(r) == Count(log[r], "finally") = 1  \* the retry loop has been left
AllCreated(r) == Len(workers[r]) = Len(languages[r])
Pos(s, e) == CHOOSE i \in DOMAIN s : s[i] = e

\* ------------------------------------------------------------------- claims

\* C1: with at least one language and retries >= 1, once every worker has
\* been created, performAdvancedOCR has called terminate exactly once on each
\* created worker by the time it returns or throws, on success and on retry
\* exhaustion alike; and no worker ever has terminate called twice.
C1_TerminateOncePerWorker ==
  \A r \in Reqs :
    (Advanced(r) /\ Len(languages[r]) >= 1 /\ retries[r] >= 1 /\ AllCreated(r))
      => /\ \A w \in DOMAIN workers[r] : workers[r][w].termCalls <= 1
         /\ Left(r) =>
              \A w \in DOMAIN workers[r] :
                /\ workers[r][w].termCalls = 1
                /\ CountN(log[r], "terminate", w) = 1
                /\ Pos(log[r], Ev("terminate", w)) < Pos(log[r], Ev("exit", 0))

C1_Witness ==
  \E r \in Reqs :
    /\ kind[r] = "adv" /\ Len(workers[r]) = 2 /\ AllCreated(r)
    /\ retries[r] = 2 /\ Failures(r) = 2
    /\ outcome[r] = Throw(RecognitionErr(2))
    /\ \A w \in DOMAIN workers[r] : workers[r][w].termCalls = 1

\* C2: when createWorker fails for the k-th language (k >= 2), the workers
\* created for languages 1..k-1 have terminate called on them before the
\* error leaves performAdvancedOCR, and no job is submitted.
C2_InitFailureReleasesWorkers ==
  \A r \in Reqs :
    (Advanced(r) /\ outcome[r].type = "throw"
       /\ outcome[r].err.kind = "Initialization" /\ outcome[r].err.n >= 2)
      => /\ Submissions(r) = 0
         /\ \A w \in DOMAIN workers[r] : workers[r][w].termCalls = 1

\* C3: with retries = N >= 1 and every submission failing, the retry loop is
\* left after exactly N submissions and exactly N - 1 delays.
C3_ExhaustionCounts ==
  \A r \in Reqs :
    (Advanced(r) /\ retries[r] >= 1 /\ LoopOver(r) /\ ~Succeeded(r))
      => /\ Submissions(r) = retries[r]
         /\ Failures(r) = retries[r]
         /\ Delays(r) = retries[r] - 1

C3_Witness ==
  \E r \in Reqs :
    /\ kind[r] = "adv" /\ retries[r] = 3 /\ LoopOver(r) /\ ~Succeeded(r)
    /\ Submissions(r) = 3 /\ Delays(r) = 2

C3_WitnessOne ==
  \E r \in Reqs :
    /\ kind[r] = "adv" /\ retries[r] = 1 /\ LoopOver(r) /\ ~Succeeded(r)
    /\ Submissions(r) = 1 /\ Delays(r) = 0

\* C4: with retries <= 0 performAdvancedOCR submits no job and does not
\* return a result: it fails with a Configuration Error.
C4_NonPositiveRetriesRejected ==
  \A r \in Reqs :
    (Advanced(r) /\ retries[r] <= 0)
      => /\ Submissions(r) = 0
         /\ outcome[r].type # "return"

\* C5: a rejected terminate never replaces the primary outcome: after a
\* successful recognition performAdvancedOCR returns the recognised text, and
\* after a failed one it throws the recognition error.
C5_CleanupNeverMasks ==
  \A r \in Reqs :
    (Advanced(r) /\ Left(r) /\ Submissions(r) >= 1)
      => outcome[r] = IF Succeeded(r)
                        THEN Return(delivered[r])
                        ELSE Throw(RecognitionErr(Submissions(r)))

\* C6: when all N = retries >= 1 submissions fail, performAdvancedOCR throws
\* the error of submission N, and the host wrapper reports success false
\* with that error's message.
C6_LastErrorSurfaced ==
  \A r \in Reqs :
    (Advanced(r) /\ retries[r] >= 1 /\ Failures(r) = retries[r])
      => /\ Left(r) => outcome[r] = Throw(RecognitionErr(retries[r]))
         /\ hostResult[r].returned
              => /\ hostResult[r].json.success = FALSE
                 /\ hostResult[r].json.error = RecognitionErr(retries[r]).message

\* C7: when the first k submissions fail and submission k+1 <= retries
\* delivers text T, the result is T, after exactly k+1 submissions and
\* exactly k delays.
C7_SuccessAfterFailures ==
  \A r \in Reqs :
    (Advanced(r) /\ Succeeded(r))
      => /\ Submissions(r) = Failures(r) + 1
         /\ Submissions(r) <= retries[r]
         /\ Delays(r) = Failures(r)
         /\ Left(r) => outcome[r] = Return(delivered[r])

\* Every delay in the log has a later submission, or is the latest event
\* with control standing right before the next submission.
DelayThenSubmission(r) ==
  \A i \in DOMAIN log[r] :
    log[r][i].ev = "delay"
      => \/ \E j \in DOMAIN log[r] : j > i /\ log[r][j].ev = "addJob"
         \/ i = Len(log[r]) /\ pc[r] = "loop"

\* C8 as stated: for any retries value the number of submissions never
\* exceeds retries, and every delay is followed by another submission.
C8_SubmissionsWithinRetries ==
  \A r \in Reqs :
    Advanced(r) => Submissions(r) <= retries[r] /\ DelayThenSubmission(r)

\* C8 amended: the number of submissions never exceeds retries when retries
\* is zero or more and is zero when retries is negative, and every delay is
\* followed by another submission.
C8_SubmissionsBounded ==
  \A r \in Reqs :
    Advanced(r) => Submissions(r) <= Max(retries[r], 0) /\ DelayThenSubmission(r)

C8_Witness ==
  \E r \in Reqs :
    /\ kind[r] = "adv" /\ retries[r] = 3 /\ Left(r)
    /\ Submissions(r) = 3 /\ Delays(r) = 2

C8_WitnessNegative ==
  \E r \in Reqs : kind[r] = "adv" /\ retries[r] < 0 /\ Left(r) /\ Submissions(r) = 0

\* C9: the host wrappers never raise.  Whatever failed (no binary input,
\* preprocessing, worker creation, recognition after the retries, a
\* terminate), the record has success false, the error's message and no text
\* field; on success it has success true, the text and no error field.
HostRecordFor(r) ==
  LET j == hostResult[r].json IN
    IF outcome[r].type = "return"
      THEN /\ j.success = TRUE
           /\ "text" \in DOMAIN j /\ j.text = outcome[r].text
           /\ "error" \notin DOMAIN j
      ELSE /\ j.success = FALSE
           /\ "error" \in DOMAIN j
           /\ j.error = (IF Left(r) THEN outcome[r].err ELSE NoBinaryErr).message
           /\ "text" \notin DOMAIN j

C9_HostNeverRaises ==
  \A r \in Reqs :
    /\ pc[r] = "hostDone" => hostResult[r].returned
    /\ hostResult[r].returned => HostRecordFor(r)

C9_Witness ==
  \E r \in Reqs :
    /\ kind[r] = "advHost" /\ pc[r] = "hostDone"
    /\ outcome[r] = Throw(CleanupErr(1))
    /\ hostResult[r].json.success = FALSE

C9_WitnessSuccess ==
  \E r \in Reqs :
    /\ kind[r] = "advHost" /\ pc[r] = "hostDone"
    /\ hostResult[r].json.success = TRUE /\ hostResult[r].json.text = "HELLO"

\* C10: when preprocessing is enabled and the preprocessing collaborator
\* fails, preprocessing is not tried again, its error is what
\* performAdvancedOCR throws, no worker is created and no job is submitted.
C10_PreprocessingFailurePropagates ==
  \A r \in Reqs :
    (Advanced(r) /\ Count(log[r], "preFail") >= 1)
      => /\ preprocessing[r]
         /\ Count(log[r], "preprocess") = 1
         /\ outcome[r] = Throw(PreprocessErr)
         /\ workers[r] = <<>> /\ Count(log[r], "createWorker") = 0
         /\ Submissions(r) = 0

C10_Witness ==
  \E r \in Reqs :
    /\ kind[r] = "adv" /\ preprocessing[r] /\ Len(languages[r]) = 2
    /\ Count(log[r], "preFail") = 1 /\ outcome[r] = Throw(PreprocessErr)

\* C11: with retries <= 0 or an empty language list performAdvancedOCR fails
\* fast with a Configuration Error before it acquires anything: no worker is
\* created, no job is submitted, and no result is returned.
C11_InvalidConfigurationFailsFast ==
  \A r \in Reqs :
    (Advanced(r) /\ (retries[r] <= 0 \/ Len(languages[r]) = 0))
      => /\ Count(log[r], "createWorker") = 0
         /\ workers[r] = <<>>
         /\ Submissions(r) = 0
         /\ outcome[r].type # "return"

\* The log up to, and not including, position i.
Before(s, i) == SubSeq(s, 1, i - 1)

\* The retry loop has its final outcome in the log s: a submission succeeded,
\* or the failed attempts have used up retries.
LoopDecided(s, n) == Count(s, "jobOk") = 1 \/ Count(s, "jobFail") >= n

\* C12: no job is submitted before a worker has been created and registered
\* for every requested language; terminate is first called only when the
\* retry loop has its final outcome (success or retries used up), never while
\* the loop is running; and after it no job is submitted and no wait is made.
C12_AcquireLoopReleaseOrder ==
  \A r \in Reqs :
    Advanced(r) =>
      /\ \A i \in DOMAIN log[r] :
           log[r][i].ev = "addJob" =>
             \A l \in DOMAIN languages[r] :
               /\ CountN(Before(log[r], i), "createWorker", l) = 1
               /\ CountN(Before(log[r], i), "addWorker", l) = 1
      /\ \A i \in DOMAIN log[r] :
           log[r][i].ev = "terminate" =>
             /\ LoopDecided(Before(log[r], i), retries[r])
             /\ \A j \in DOMAIN log[r] :
                  j > i => log[r][j].ev \notin {"addJob", "delay"}
      /\ pc[r] \in {"loop", "delay"} => Count(log[r], "terminate") = 0

C12_Witness ==
  \E r \in Reqs :
    /\ kind[r] = "adv" /\ Len(languages[r]) = 2 /\ retries[r] = 2
    /\ Submissions(r) = 2 /\ Delays(r) = 1 /\ Succeeded(r)
    /\ Count(log[r], "terminate") = 2 /\ Left(r)

Settled(w) == w.st \in {"terminated", "termFailed"}

\* C13: performAdvancedOCR does not return or throw until the termination of
\* every created worker has completed, also when one terminate fails while
\* others are in flight; and one failed terminate does not keep terminate
\* from being called on the remaining workers.
C13_AllTerminationsAwaited ==
  \A r \in Reqs :
    (Advanced(r) /\ LoopOver(r))
      => /\ \A w \in DOMAIN workers[r] : workers[r][w].termCalls = 1
         /\ Left(r) => \A w \in DOMAIN workers[r] : Settled(workers[r][w])

\* The second half of C13 alone: once the finally block has started,
\* terminate has been called on every worker, whatever the other
\* terminations do.
C13_TerminateCalledOnAll ==
  \A r \in Reqs :
    (Advanced(r) /\ LoopOver(r))
      => \A w \in DOMAIN workers[r] : workers[r][w].termCalls = 1

\* The try block has been entered: the initialisation loop is complete.
InTry(r) == pc[r] \in {"loop", "delay", "finally", "awaitAll"} \/ LoopOver(r)

\* C14: workers are created one at a time in the order of the language list;
\* the creation for language i+1 starts only after the worker for language i
\* has been created and registered; and when the retry loop starts the
\* scheduler holds exactly one registered worker per requested language.
C14_SequentialOrderedAcquisition ==
  \A r \in Reqs :
    Advanced(r) =>
      /\ Len(workers[r]) <= Len(languages[r])
      /\ \A i \in DOMAIN workers[r] : workers[r][i].lang = languages[r][i]
      /\ \A i \in DOMAIN log[r] :
           (log[r][i].ev = "createWorker" /\ log[r][i].n >= 2) =>
             /\ CountN(Before(log[r], i), "createWorker", log[r][i].n - 1) = 1
             /\ CountN(Before(log[r], i), "addWorker", log[r][i].n - 1) = 1
             /\ Count(Before(log[r], i), "createWorker") = log[r][i].n - 1
      /\ InTry(r) =>
           /\ registered[r] = [i \in DOMAIN languages[r] |-> i]
           /\ Len(workers[r]) = Len(languages[r])

C14_Witness ==
  \E r \in Reqs :
    /\ kind[r] = "adv" /\ pc[r] = "loop" /\ Submissions(r) = 0
    /\ languages[r] = <<"eng", "fra">>
    /\ registered[r] = <<1, 2>>
    /\ workers[r][1].lang = "eng" /\ workers[r][2].lang = "fra"

\* Everything one call holds.
Slice(r) ==
  <<pc[r], kind[r], languages[r], preprocessing[r], retries[r], processed[r],
    workers[r], registered[r], attempts[r], error[r], text[r], pending[r],
    allReject[r], outcome[r], hostResult[r], delivered[r], log[r]>>

\* The outcome the call's own log accounts for: the failure of its own
\* preprocessing or worker creation; else the rejection of the first of its
\* terminates that failed; else the text of its successful job; else the
\* error of its last failed job; else, with no job at all, the empty text.
First(s, name) ==
  s[CHOOSE i \in DOMAIN s :
      /\ s[i].ev = name
      /\ \A j \in DOMAIN s : s[j].ev = name => i <= j].n

OwnOutcome(r) ==
  IF Count(log[r], "preFail") > 0 THEN Throw(PreprocessErr)
  ELSE IF Count(log[r], "createFail") > 0
    THEN Throw(InitErr(First(log[r], "createFail")))
  ELSE IF Count(log[r], "termFail") > 0
    THEN Throw(CleanupErr(First(log[r], "termFail")))
  ELSE IF Succeeded(r) THEN Return(delivered[r])
  ELSE IF Failures(r) > 0 THEN Throw(RecognitionErr(Submissions(r)))
  ELSE Return("")

\* What a call has done is what its own log says: its jobs went to a
\* scheduler holding its own workers, its attempt counter counts its own
\* failed jobs, terminate was called on its workers by itself only, and its
\* outcome follows from its own jobs and terminations.
OwnEffects(r) ==
  /\ attempts[r] = Failures(r)
  /\ Len(workers[r]) = Count(log[r], "addWorker")
  /\ \A i \in DOMAIN registered[r] : registered[r][i] \in DOMAIN workers[r]
  /\ \A w \in DOMAIN workers[r] :
       workers[r][w].termCalls = CountN(log[r], "terminate", w)
  /\ \A i \in DOMAIN log[r] :
       log[r][i].ev \in {"terminate", "termOk", "termFail"}
         => log[r][i].n \in DOMAIN workers[r]
  /\ Left(r) => outcome[r] = OwnOutcome(r)

\* A step of one call leaves everything the other call holds as it was.
IsolatedStep ==
  \A r \in Reqs :
    Slice(r)' # Slice(r) => \A q \in Reqs \ {r} : Slice(q)' = Slice(q)

\* C15: with two calls of performAdvancedOCR running under any interleaving,
\* each call submits jobs to its own scheduler only and terminates only the
\* workers it created, and its attempt counter and outcome are not affected
\* by the failures, retries or cleanup of the other call.
C15_RequestsIsolated ==
  /\ [](\A r \in Reqs : Advanced(r) => OwnEffects(r))
  /\ [][IsolatedStep]_vars

C15_Witness ==
  /\ pc[1] = "delay" /\ attempts[1] = 1
  /\ outcome[2] = Throw(CleanupErr(1))
  /\ OwnEffects(1) /\ OwnEffects(2)

\* C16 as stated: with a non-empty language list, every call of
\* performAdvancedOCR returns or throws in the end, and the number of
\* submissions is at most retries.
C16_TerminatesWithinRetries ==
  /\ \A r \in Reqs : (Advanced(r) /\ Len(languages[r]) >= 1) ~> Left(r)
  /\ [](\A r \in Reqs :
          (Advanced(r) /\ Len(languages[r]) >= 1) => Submissions(r) <= retries[r])

\* C16 amended: with a non-empty language list, every call of
\* performAdvancedOCR returns or throws in the end, after at most retries
\* submissions when retries >= 0 and after none when retries is negative.
C16_Terminates ==
  /\ \A r \in Reqs : (Advanced(r) /\ Len(languages[r]) >= 1) ~> Left(r)
  /\ [](\A r \in Reqs :
          (Advanced(r) /\ Len(languages[r]) >= 1)
            => Submissions(r) <= Max(retries[r], 0))

C16_Witness ==
  \E r \in Reqs :
    /\ kind[r] = "adv" /\ Len(languages[r]) = 2 /\ retries[r] = 3
    /\ Submissions(r) = 3 /\ outcome[r].type = "throw"

SingleWorker(r) == kind[r] \in {"simpleHost", "performOCR"}
Recognitions(r) == Count(log[r], "recognize")
JobSettled(s) == Count(s, "jobOk") + Count(s, "jobFail") = 1

\* C17: in performOCR and extractTextFromImage exactly one recognition is
\* attempted, with no retry; terminate is called on the worker exactly once,
\* after the recognition, whether it succeeded or failed; and when the
\* worker creation fails neither recognize nor terminate is called.
C17_SingleWorkerLifecycle ==
  \A r \in Reqs :
    SingleWorker(r) =>
      /\ Recognitions(r) <= 1 /\ Submissions(r) = 0 /\ Delays(r) = 0
      /\ \A w \in DOMAIN workers[r] :
           workers[r][w].termCalls = Count(log[r], "terminate")
      /\ \A i \in DOMAIN log[r] :
           log[r][i].ev = "terminate" =>
             /\ JobSettled(Before(log[r], i))
             /\ Count(Before(log[r], i), "terminate") = 0
      /\ (Left(r) /\ Count(log[r], "createFail") = 0)
           => /\ Recognitions(r) = 1
              /\ Len(workers[r]) = 1 /\ workers[r][1].termCalls = 1
      /\ Count(log[r], "createFail") >= 1
           => /\ Recognitions(r) = 0
              /\ Count(log[r], "terminate") = 0
              /\ workers[r] = <<>>

C17_Witness ==
  \E r \in Reqs :
    /\ kind[r] = "performOCR"
    /\ outcome[r] = Throw(RecognitionErr(1))
    /\ Recognitions(r) = 1 /\ workers[r][1].termCalls = 1

C17_WitnessCreateFails ==
  \E r \in Reqs :
    /\ kind[r] = "simpleHost" /\ outcome[r] = Throw(InitErr(1))
    /\ Recognitions(r) = 0 /\ Count(log[r], "terminate") = 0

HostCall(r) == kind[r] \in {"advHost", "simpleHost"}
NoBinaryInput(r) == CountN(log[r], "input", 0) = 1

\* C18: when the input item carries no binary data, both host wrappers
\* return a failure record and nothing else happens: no preprocessing, no
\* worker creation, no job submission, no recognition.
C18_NoBinaryNoWork ==
  \A r \in Reqs :
    (HostCall(r) /\ NoBinaryInput(r))
      => /\ hostResult[r].returned
         /\ hostResult[r].json.success = FALSE
         /\ hostResult[r].json.error = NoBinaryErr.message
         /\ "text" \notin DOMAIN hostResult[r].json
         /\ log[r] = <<Ev("input", 0)>>
         /\ workers[r] = <<>> /\ registered[r] = <<>>
         /\ ~processed[r] /\ ~Left(r)

C18_Witness ==
  \E r \in Reqs :
    /\ kind[r] = "advHost" /\ NoBinaryInput(r) /\ pc[r] = "hostDone"
    /\ hostResult[r].json.success = FALSE

C18_WitnessSimple ==
  \E r \in Reqs :
    /\ kind[r] = "simpleHost" /\ NoBinaryInput(r) /\ pc[r] = "hostDone"
    /\ hostResult[r].json.success = FALSE

====
